---- MODULE Spec2Model ----
(***************************************************************************)
(* Obsidian weekly report: the incremental scan (daily_summary.py), the    *)
(* look-back scanner (scanner.py), the topic clusterer and report          *)
(* generator (weekly_report.py) and the pipeline driver (run_pipeline.py). *)
(*                                                                         *)
(* Text is modelled as sequences of one-character strings, so that         *)
(* startswith / endswith / basename / splitext / re.split are computed.    *)
(***************************************************************************)
EXTENDS Integers, Sequences, FiniteSets, TLC

VARIABLES
    clock,          \* the wall clock read by time.time()
    mtime,          \* modification time of every file of the vault
    vault_exists,   \* whether the vault root path exists
    api_key,        \* whether LINEAR_API_KEY is set
    stateFile,      \* state.json: [exists, text]
    logExists,      \* whether weekly_log.jsonl exists
    logFile,        \* weekly_log.jsonl: the sequence of its lines
    pc,             \* position of the scan_and_summarize process
    days_back,      \* its argument: <<>> is None, <<n>> is n days
    state_last_scan,\* state['last_scan'] as returned by load_state
    last_scan,      \* the effective baseline
    current_time,   \* the scan's start time
    todo,           \* files os.walk has still to yield
    new_logs,       \* the run's new_logs list
    written,        \* how many entries of new_logs are in the log file
    quietRuns,      \* history: 0 when a file was modified since the last
                    \* scan started, 1 when none was, 2 when none was since
                    \* the start of the scan before it, that scan completed
                    \* and neither of the two had a lookback override
    modified_files, \* the list scan_vault returned last
    report,         \* what generate_report did last
    publish,        \* what publish_to_linear did last
    mainPc,         \* position of run_pipeline.main
    publish_linear, \* main's --publish-linear flag
    clusters        \* the clusters extract_topics_and_cluster returned last

scanLocals == <<pc, days_back, state_last_scan, last_scan, current_time, todo,
                new_logs, written>>
scanVars == <<scanLocals, quietRuns>>
fileVars == <<stateFile, logExists, logFile>>
envVars == <<clock, mtime, vault_exists, api_key>>
reportVars == <<report, publish, clusters>>
mainVars == <<mainPc, publish_linear>>
vars == <<clock, mtime, vault_exists, api_key, stateFile, logExists, logFile,
          pc, days_back, state_last_scan, last_scan, current_time, todo,
          new_logs, written, quietRuns, modified_files, report, publish, mainPc,
          publish_linear, clusters>>

----------------------------------------------------------------------------
(* Bounds of the model. *)
MaxClock == 2
MaxLog == 3
MaxBatch == 3

(* Program constants. *)
SecondsPerDay == 86400
TopK == 5
ScanVaultDays == 7

----------------------------------------------------------------------------
(* Text helpers. *)
Range(s) == {s[i] : i \in 1..Len(s)}
Max(S) == CHOOSE x \in S : \A y \in S : y <= x
Min(S) == CHOOSE x \in S : \A y \in S : x <= y

startswith(s, p) == Len(s) >= Len(p) /\ SubSeq(s, 1, Len(p)) = p
endswith(s, p) == Len(s) >= Len(p) /\ SubSeq(s, Len(s) - Len(p) + 1, Len(s)) = p

RECURSIVE Join(_, _)
Join(parts, sep) ==
    IF parts = <<>> THEN <<>>
    ELSE IF Len(parts) = 1 THEN parts[1]
    ELSE parts[1] \o sep \o Join(Tail(parts), sep)

SEP == <<"/">>
DOT == <<".">>
MD == <<".", "m", "d">>
DotGit == <<".", "g", "i", "t">>
DotObsidian == <<".", "o", "b", "s", "i", "d", "i", "a", "n">>
DotTrash == <<".", "t", "r", "a", "s", "h">>
Notes == <<"n", "b">>

(* The vault: every file is the directories os.walk descends through to    *)
(* reach it (below the vault root) and its file name.                      *)
FileA == [dirs |-> <<>>, name |-> <<"a", "b", ".", "m", "d">>]
FileTxt == [dirs |-> <<>>, name |-> <<"a", "b", ".", "t", "x", "t">>]
FileGit == [dirs |-> <<DotGit>>, name |-> <<"e", "f", ".", "m", "d">>]
FileB == [dirs |-> <<Notes>>, name |-> <<"c", "d", ".", "m", "d">>]
FileTrash == [dirs |-> <<Notes, DotTrash>>, name |-> <<"g", "h", ".", "m", "d">>]
(* the order in which os.walk (top-down) meets them *)
WalkOrder == <<FileA, FileTxt, FileGit, FileB, FileTrash>>
Files == Range(WalkOrder)
(* the notes the user edits while the scans run *)
Edited == {FileA, FileB}

(* os.path.relpath(file_path, vault_path) *)
relpath(f) == Join(f.dirs \o <<f.name>>, SEP)

----------------------------------------------------------------------------
(* state.json *)
NoFile == [exists |-> FALSE, text |-> <<>>]
Truncated == [exists |-> TRUE, text |-> <<>>]
json_dump(v) == <<v>>
json_load_ok(text) == Len(text) = 1
json_load(text) == text[1]

(* load_state: json.load raises when the file exists and does not parse *)
load_state_raises == stateFile.exists /\ ~json_load_ok(stateFile.text)
load_state == IF stateFile.exists THEN json_load(stateFile.text) ELSE 0

None == <<>>
Baseline(now, days, cursor) ==
    IF days # None THEN now - days[1] * SecondsPerDay ELSE cursor

(* dirs[:] = [d for d in dirs if not d.startswith('.')] *)
PrunedBySummary(d) == startswith(d, DOT)
(* if '.git' in dirs: dirs.remove('.git'); the same for '.obsidian' *)
PrunedByScanner(d) == d = DotGit \/ d = DotObsidian

(* the files os.walk yields under a pruning rule, in its order *)
Dirs == {DotGit, DotObsidian, DotTrash, Notes}
Walk(pruned) ==
    IF vault_exists
    THEN SelectSeq(WalkOrder,
                   LAMBDA f : \A i \in 1..Len(f.dirs) : f.dirs[i] \notin pruned)
    ELSE <<>>

IsNote(name) == endswith(name, MD)

ChangedOrEqual(m, base) == m >= base
(* line 64: mtime > last_scan *)
Changed(m, base) == m > base

LogEntry(f, now) == [timestamp |-> now, rel_path |-> relpath(f)]

Running == pc \in {"walk", "append", "save", "dump"}

AfterWalk(left, entries) ==
    IF left # <<>> THEN "walk" ELSE IF entries # <<>> THEN "append" ELSE "save"

----------------------------------------------------------------------------
(* scan_and_summarize *)

(* lines 37-48: load_state, time.time(), the override, new_logs = [] *)
ScanStart(days) ==
    /\ ~Running
    /\ Len(logFile) + Cardinality(Edited) <= MaxLog
    /\ days_back' = days
    /\ quietRuns' = IF /\ pc = "done" /\ days_back = None /\ days = None
                       /\ quietRuns >= 1 /\ ~load_state_raises
                    THEN 2 ELSE 1
    /\ IF load_state_raises
       THEN /\ pc' = "crashed"
            /\ state_last_scan' = 0
            /\ last_scan' = 0
            /\ current_time' = 0
            /\ todo' = <<>>
            /\ new_logs' = <<>>
            /\ written' = 0
       ELSE /\ state_last_scan' = load_state
            /\ current_time' = clock
            /\ last_scan' = Baseline(clock, days, load_state)
            /\ todo' = Walk({d \in Dirs : PrunedBySummary(d)})
            /\ new_logs' = <<>>
            /\ written' = 0
            /\ pc' = AfterWalk(todo', <<>>)
    /\ UNCHANGED <<envVars, fileVars, modified_files, reportVars>>

Start(days) ==
    /\ mainPc = "none"
    /\ ScanStart(days)
    /\ UNCHANGED mainVars

(* lines 54-97: the next file of the walk; outcome is what reading it does *)
Visit(outcome) ==
    /\ pc = "walk"
    /\ todo' = Tail(todo)
    /\ new_logs' =
          IF /\ IsNote(Head(todo).name)
             /\ outcome = "ok"
             /\ Changed(mtime[Head(todo)], last_scan)
          THEN Append(new_logs, LogEntry(Head(todo), current_time))
          ELSE new_logs
    /\ pc' = AfterWalk(todo', new_logs')
    /\ UNCHANGED <<quietRuns, days_back, state_last_scan, last_scan,
                   current_time, written, envVars, fileVars, modified_files,
                   reportVars, mainVars>>

Overwritten(file, entry) == <<entry>>
(* lines 101-103: open(LOG_FILE, 'a') and f.write of one entry *)
AppendedLog(file, entry) == Append(file, entry)

AppendLine ==
    /\ pc = "append"
    /\ logFile' = AppendedLog(logFile, new_logs[written + 1])
    /\ logExists' = TRUE
    /\ written' = written + 1
    /\ pc' = IF written' = Len(new_logs) THEN "save" ELSE "append"
    /\ UNCHANGED <<quietRuns, days_back, state_last_scan, last_scan,
                   current_time, todo, new_logs, stateFile, envVars,
                   modified_files, reportVars, mainVars>>

(* line 17: open(STATE_FILE, 'w') truncates the file *)
SaveOpen ==
    /\ pc = "save"
    /\ stateFile' = Truncated
    /\ pc' = "dump"
    /\ UNCHANGED <<quietRuns, days_back, state_last_scan, last_scan,
                   current_time, todo, new_logs, written, logExists, logFile,
                   envVars, modified_files, reportVars, mainVars>>

LastLoggedTime ==
    IF new_logs = <<>> THEN 0 ELSE new_logs[Len(new_logs)].timestamp
(* line 109: the value handed to save_state *)
SavedCursor == current_time

(* line 18: json.dump, and the file is closed *)
SaveDump ==
    /\ pc = "dump"
    /\ stateFile' = [exists |-> TRUE, text |-> json_dump(SavedCursor)]
    /\ pc' = "done"
    /\ UNCHANGED <<quietRuns, days_back, state_last_scan, last_scan,
                   current_time, todo, new_logs, written, logExists, logFile,
                   envVars, modified_files, reportVars, mainVars>>

(* the process is killed between two steps: its memory is gone, the files  *)
(* stay as they are                                                        *)
Interrupt ==
    /\ Running
    /\ pc' = "killed"
    /\ last_scan' = 0
    /\ current_time' = 0
    /\ todo' = <<>>
    /\ new_logs' = <<>>
    /\ written' = 0
    /\ UNCHANGED <<quietRuns, days_back, state_last_scan, fileVars, envVars,
                   modified_files, reportVars, mainVars>>

----------------------------------------------------------------------------
(* the environment: time passes, the user edits a note *)
Tick ==
    /\ clock < MaxClock
    /\ clock' = clock + 1
    /\ UNCHANGED <<mtime, vault_exists, api_key, fileVars, scanVars,
                   modified_files, reportVars, mainVars>>

Modify(f) ==
    /\ mtime' = [mtime EXCEPT ![f] = clock]
    /\ quietRuns' = 0
    /\ UNCHANGED <<clock, vault_exists, api_key, fileVars, scanLocals,
                   modified_files, reportVars, mainVars>>

----------------------------------------------------------------------------
(* scanner.py: scan_vault *)
RemoveAt(s, i) == SubSeq(s, 1, i - 1) \o SubSeq(s, i + 1, Len(s))

(* list.sort(key=mtime, reverse=True): stable, equal keys keep their order *)
RECURSIVE SortNewestFirst(_)
SortNewestFirst(s) ==
    IF s = <<>> THEN <<>>
    ELSE LET top == Max({s[i].mtime : i \in 1..Len(s)})
             k == Min({i \in 1..Len(s) : s[i].mtime = top})
         IN <<s[k]>> \o SortNewestFirst(RemoveAt(s, k))

RECURSIVE Entries(_, _, _)
Entries(walk, cutoff_time, failing) ==
    IF walk = <<>> THEN <<>>
    ELSE LET f == Head(walk)
             rest == Entries(Tail(walk), cutoff_time, failing)
         IN IF IsNote(f.name) /\ f \notin failing /\ Changed(mtime[f], cutoff_time)
            THEN <<[rel_path |-> relpath(f), mtime |-> mtime[f]]>> \o rest
            ELSE rest

(* failing: the files whose os.stat raises *)
scan_vault(days, failing) ==
    SortNewestFirst(Entries(Walk({d \in Dirs : PrunedByScanner(d)}),
                            clock - days * SecondsPerDay, failing))

ScanVault(days, failing) ==
    /\ modified_files' = scan_vault(days, failing)
    /\ UNCHANGED <<envVars, fileVars, scanVars, reportVars, mainVars>>

----------------------------------------------------------------------------
(* weekly_report.py: extract_topics_and_cluster *)
LastIndexOf(s, c) ==
    LET I == {i \in 1..Len(s) : s[i] = c} IN IF I = {} THEN 0 ELSE Max(I)

(* os.path.basename *)
basename(p) == SubSeq(p, LastIndexOf(p, "/") + 1, Len(p))

(* os.path.splitext(name)[0]: cut at the last dot, unless only dots precede it *)
splitext_root(name) ==
    LET i == LastIndexOf(name, ".")
    IN IF i = 0 \/ (\A j \in 1..(i - 1) : name[j] = ".")
       THEN name
       ELSE SubSeq(name, 1, i - 1)

(* \s *)
Whitespace == {" ", "\t", "\n", "\r", "\f"}
(* [\s\-_,\.] and the full-width comma, full stop and colon, which are     *)
(* written here by their code points                                       *)
Delimiters == Whitespace \cup {"-", "_", ",", ".", "U+FF0C", "U+3002", "U+FF1A"}

(* re.split(r'[...]+', s): the pieces between runs of delimiters, an empty *)
(* piece included when s starts or ends with a delimiter                   *)
RECURSIVE re_split_from(_, _, _, _)
re_split_from(s, i, piece, in_run) ==
    IF i > Len(s) THEN <<piece>>
    ELSE IF s[i] \in Delimiters
         THEN IF in_run
              THEN re_split_from(s, i + 1, piece, TRUE)
              ELSE <<piece>> \o re_split_from(s, i + 1, <<>>, TRUE)
         ELSE re_split_from(s, i + 1, Append(piece, s[i]), FALSE)
re_split(s) == re_split_from(s, 1, <<>>, FALSE)

(* str.strip() *)
RECURSIVE strip(_)
strip(t) ==
    IF t = <<>> THEN t
    ELSE IF Head(t) \in Whitespace THEN strip(Tail(t))
    ELSE IF t[Len(t)] \in Whitespace THEN strip(SubSeq(t, 1, Len(t) - 1))
    ELSE t

UpperCase == <<"A", "B", "C", "D", "E", "F", "G", "H", "I", "J", "K", "L", "M",
              "N", "O", "P", "Q", "R", "S", "T", "U", "V", "W", "X", "Y", "Z">>
LowerCase == <<"a", "b", "c", "d", "e", "f", "g", "h", "i", "j", "k", "l", "m",
              "n", "o", "p", "q", "r", "s", "t", "u", "v", "w", "x", "y", "z">>
(* str.lower() *)
lower_char(c) ==
    IF \E i \in 1..Len(UpperCase) : UpperCase[i] = c
    THEN LowerCase[CHOOSE i \in 1..Len(UpperCase) : UpperCase[i] = c]
    ELSE c
lower(t) == [i \in 1..Len(t) |-> lower_char(t[i])]

ignore_words ==
    {<<"m", "d">>,
     <<"t", "h", "e">>,
     <<"i", "n">>,
     <<"o", "f">>,
     <<"a">>,
     <<"t", "o">>,
     <<"f", "o", "r">>,
     <<"o", "n">>,
     <<"a", "n", "d">>,
     <<"w", "i", "t", "h">>,
     <<"b", "y">>,
     <<"i", "s">>,
     <<"a", "t">>,
     <<"t", "x", "t">>,
     <<"f", "i", "l", "e">>,
     <<"n", "e", "w">>,
     <<"u", "p", "d", "a", "t", "e">>,
     <<"u", "n", "t", "i", "t", "l", "e", "d">>,
     <<"0">>,
     <<"1">>,
     <<"2">>,
     <<"3">>,
     <<"r", "e", "v", "i", "e", "w">>,
     <<"p", "l", "a", "n", "n", "i", "n", "g">>,
     <<"d", "e", "v">>}

(* lines 120-125: the tokens of a name that are kept *)
IsValidToken(token_clean) ==
    Len(token_clean) > 1 /\ lower(token_clean) \notin ignore_words

valid_tokens(name) ==
    LET tokens == re_split(splitext_root(name))
        cleaned == [i \in 1..Len(tokens) |-> strip(tokens[i])]
    IN SelectSeq(cleaned, IsValidToken)

(* line 105 *)
all_filenames(batch) == [i \in 1..Len(batch) |-> basename(batch[i].rel_path)]

(* the keys of a dict or Counter, in insertion order *)
RECURSIVE Keys(_)
Keys(s) ==
    IF s = <<>> THEN <<>>
    ELSE LET front == Keys(SubSeq(s, 1, Len(s) - 1))
             x == s[Len(s)]
         IN IF x \in Range(front) THEN front ELSE Append(front, x)

Count(w, ws) == Cardinality({i \in 1..Len(ws) : ws[i] = w})

(* sorted(items, key=count, reverse=True): stable *)
RECURSIVE SortByCountDesc(_, _)
SortByCountDesc(keys, ws) ==
    IF keys = <<>> THEN <<>>
    ELSE LET top == Max({Count(keys[i], ws) : i \in 1..Len(keys)})
             k == Min({i \in 1..Len(keys) : Count(keys[i], ws) = top})
         IN <<keys[k]>> \o SortByCountDesc(RemoveAt(keys, k), ws)

FirstSeen(ws, n) ==
    LET keys == Keys(ws) IN SubSeq(keys, 1, IF Len(keys) < n THEN Len(keys) ELSE n)
(* Counter(words).most_common(n), the keywords only *)
most_common(ws, n) ==
    LET sorted == SortByCountDesc(Keys(ws), ws)
    IN SubSeq(sorted, 1, IF Len(sorted) < n THEN Len(sorted) ELSE n)

(* lines 113-127: the values of file_tokens, in the order of its keys *)
RECURSIVE TokensOf(_)
TokensOf(names) ==
    IF names = <<>> THEN <<>>
    ELSE <<valid_tokens(Head(names))>> \o TokensOf(Tail(names))

(* the words list: the kept tokens of every name, in order, repeats kept *)
RECURSIVE Flatten(_)
Flatten(lists) ==
    IF lists = <<>> THEN <<>> ELSE Head(lists) \o Flatten(Tail(lists))

RelatedAgain(keyword, tokens, name, processed_files) ==
    keyword \in Range(tokens)
(* line 143: "keyword in tokens and name not in processed_files" *)
Related(keyword, tokens, name, processed_files) ==
    /\ keyword \in Range(tokens)
    /\ name \notin processed_files

(* lines 139-148 *)
RECURSIVE cluster_loop(_, _, _, _)
cluster_loop(keywords, names, file_tokens, processed_files) ==
    IF keywords = <<>> THEN <<>>
    ELSE LET keyword == Head(keywords)
             hits == {i \in 1..Len(names) :
                         Related(keyword, file_tokens[i], names[i], processed_files)}
             related_files == SelectSeq(names, LAMBDA n : \E i \in hits : names[i] = n)
             rest == cluster_loop(Tail(keywords), names, file_tokens,
                                  processed_files \cup Range(related_files))
         IN IF related_files # <<>>
            THEN <<[keyword |-> keyword, count |-> Len(related_files),
                    files |-> related_files]>> \o rest
            ELSE rest

extract_topics_and_cluster(batch) ==
    LET all == all_filenames(batch)
        ws == Flatten(TokensOf(all))
        names == Keys(all)
    IN IF ws = <<>> THEN <<>>
       ELSE cluster_loop(most_common(ws, TopK), names, TokensOf(names), {})

----------------------------------------------------------------------------
(* weekly_report.py: publish_to_linear and generate_report *)
NetOutcomes == {"ok", "no_teams", "error", "rejected"}

(* lines 21-97: every path returns None; the outcome is only printed *)
publish_to_linear(net) == IF ~api_key THEN "no_key" ELSE net

(* lines 155-167 and 248-250: what becomes of the report file *)
ReportOutcome(output_ok) ==
    IF ~logExists THEN "no_logs"
    ELSE IF logFile = <<>> THEN "empty"
    ELSE IF output_ok THEN "written"
    ELSE "raised"

(* generate_report, without the frame. Its inputs: whether the report     *)
(* file can be written, and what the network does to the publication.      *)
Report(flag) ==
    /\ clusters' = IF logExists /\ logFile # <<>>
                   THEN extract_topics_and_cluster(logFile)
                   ELSE <<>>
    /\ \E output_ok \in BOOLEAN : report' = ReportOutcome(output_ok)
    /\ \E net \in NetOutcomes :
          publish' = IF report' = "written" /\ flag
                     THEN publish_to_linear(net)
                     ELSE "none"
    /\ UNCHANGED <<envVars, fileVars, scanVars, modified_files>>

GenerateReport(flag) ==
    /\ mainPc = "none"
    /\ ~Running
    /\ Report(flag)
    /\ UNCHANGED mainVars

----------------------------------------------------------------------------
(* run_pipeline.py: main *)

(* lines 15-16: "if args.days" drops --days 0 *)
ForwardedDays(days) == IF days # None /\ days[1] # 0 THEN days ELSE None

(* exit status of the daily_summary.py process *)
ScanExit == IF pc = "done" THEN 0 ELSE 1
(* exit status of the weekly_report.py process *)
ReportExit(outcome) == IF outcome = "raised" THEN 1 ELSE 0

(* lines 13-18: step 1 starts daily_summary.py *)
MainStart(days, flag) ==
    /\ mainPc = "none"
    /\ ScanStart(ForwardedDays(days))
    /\ mainPc' = "step1"
    /\ publish_linear' = flag

(* lines 18-21: subprocess.call returns *)
MainScanReturned ==
    /\ mainPc = "step1"
    /\ pc \in {"done", "crashed", "killed"}
    /\ mainPc' = IF ScanExit # 0 THEN "exit_error" ELSE "step2"
    /\ UNCHANGED <<publish_linear, envVars, fileVars, scanVars,
                   modified_files, reportVars>>

(* lines 23-39: step 2 runs weekly_report.py to its end *)
MainReport ==
    /\ mainPc = "step2"
    /\ Report(publish_linear)
    /\ mainPc' = IF ReportExit(report') # 0 THEN "exit_error" ELSE "completed"
    /\ UNCHANGED publish_linear

----------------------------------------------------------------------------
Outcomes == {"ok", "oserror", "empty"}
DaysArgs == {None, <<1>>}
MainDaysArgs == {None, <<0>>, <<1>>}

ScanIdle ==
    /\ pc = "idle"
    /\ days_back = None
    /\ state_last_scan = 0
    /\ last_scan = 0
    /\ current_time = 0
    /\ todo = <<>>
    /\ new_logs = <<>>
    /\ written = 0
    /\ quietRuns = 0

NothingReported ==
    /\ modified_files = <<>>
    /\ report = "none"
    /\ publish = "none"
    /\ clusters = <<>>

(* The scans of one vault, interleaved with the user's edits, with the     *)
(* clock and with report runs; a scan may be killed at any step.           *)
Init ==
    /\ clock = 1
    /\ mtime = [f \in Files |-> 1]
    /\ vault_exists = TRUE
    /\ api_key = FALSE
    /\ stateFile = NoFile
    /\ logExists = FALSE
    /\ logFile = <<>>
    /\ ScanIdle
    /\ NothingReported
    /\ mainPc = "none"
    /\ publish_linear = FALSE

Next ==
    \/ \E d \in DaysArgs : Start(d)
    \/ \E o \in Outcomes : Visit(o)
    \/ AppendLine
    \/ SaveOpen
    \/ SaveDump
    \/ Interrupt
    \/ Tick
    \/ \E f \in Edited : Modify(f)
    \/ GenerateReport(FALSE)

Spec == Init /\ [][Next]_vars

(* Both scanners over a vault whose files, hidden ones included, carry any *)
(* modification times.                                                     *)
WalkInit ==
    /\ clock \in 1..MaxClock
    /\ mtime \in [Files -> 1..clock]
    /\ vault_exists = TRUE
    /\ api_key = FALSE
    /\ stateFile \in {NoFile} \cup
                     {[exists |-> TRUE, text |-> json_dump(c)] : c \in 1..clock}
    /\ logExists = FALSE
    /\ logFile = <<>>
    /\ ScanIdle
    /\ NothingReported
    /\ mainPc = "none"
    /\ publish_linear = FALSE

WalkNext ==
    \/ \E d \in DaysArgs : Start(d)
    \/ \E o \in Outcomes : Visit(o)
    \/ AppendLine
    \/ SaveOpen
    \/ SaveDump
    \/ \E d \in {0, ScanVaultDays}, failing \in {{}} \cup {{f} : f \in Files} :
          ScanVault(d, failing)

WalkSpec == WalkInit /\ [][WalkNext]_vars

(* The report generator over any log of at most MaxBatch lines.            *)
Path1 == <<"A", "b", "-", "c", "d", ".", "m", "d">>
Path2 == <<"n", "b", "/", "A", "b", "_", "e", "f", ".", "m", "d">>
Path3 == <<"c", "d", ".", "e", "f", ".", "m", "d">>
Path4 == <<"g", "h", "-", "i", "j", " ", "k", "l", ",", "m", "n", "_", "o", "p", ".", "m", "d">>
Path5 == <<"N", "e", "w", "-", "1", ".", "m", "d">>
Path6 == <<"n", "b", "/", "A", "b", "-", "c", "d", ".", "m", "d">>
Paths == {Path1, Path2, Path3, Path4, Path5, Path6}
Lines == {[timestamp |-> 1, rel_path |-> p] : p \in Paths}
Batches == UNION {[1..n -> Lines] : n \in 0..MaxBatch}

ReportInit ==
    /\ clock = 1
    /\ mtime = [f \in Files |-> 1]
    /\ vault_exists = TRUE
    /\ api_key \in BOOLEAN
    /\ stateFile = NoFile
    /\ \/ logExists = FALSE /\ logFile = <<>>
       \/ logExists = TRUE /\ logFile \in Batches
    /\ ScanIdle
    /\ NothingReported
    /\ mainPc = "none"
    /\ publish_linear = FALSE

ReportNext ==
    /\ report = "none"
    /\ \E flag \in BOOLEAN : GenerateReport(flag)

ReportSpec == ReportInit /\ [][ReportNext]_vars

(* One run of the pipeline, from any state the files can be in.            *)
PipelineInit ==
    /\ clock = MaxClock
    /\ mtime = [f \in Files |-> 1]
    /\ vault_exists \in BOOLEAN
    /\ api_key \in BOOLEAN
    /\ stateFile \in {NoFile, Truncated, [exists |-> TRUE, text |-> json_dump(1)]}
    /\ \/ logExists = FALSE /\ logFile = <<>>
       \/ logExists = TRUE /\ logFile \in {<<>>, <<LogEntry(FileA, 1)>>}
    /\ ScanIdle
    /\ NothingReported
    /\ mainPc = "none"
    /\ publish_linear = FALSE

PipelineNext ==
    \/ \E d \in MainDaysArgs, flag \in BOOLEAN : MainStart(d, flag)
    \/ \E o \in Outcomes : Visit(o)
    \/ AppendLine
    \/ SaveOpen
    \/ SaveDump
    \/ MainScanReturned
    \/ MainReport

PipelineSpec == PipelineInit /\ [][PipelineNext]_vars

----------------------------------------------------------------------------
(* Properties. *)
IsPrefix(s, t) == Len(s) <= Len(t) /\ SubSeq(t, 1, Len(s)) = s

(* C1. Idempotent re-scan: a scan without override that follows a          *)
(* completed scan without override, no file having been modified since     *)
(* the first of the two started, finds nothing and appends nothing.        *)
IdempotentRescan ==
    quietRuns = 2 => new_logs = <<>> /\ pc # "append"

(* the second scan of such a pair has finished, and the first one had      *)
(* logged a change                                                         *)
IdempotentRescanWitness ==
    /\ quietRuns = 2
    /\ pc = "done"
    /\ logFile # <<>>
    /\ logFile[Len(logFile)].timestamp = state_last_scan

(* C2. Cursor monotonicity: when a scan without override has completed,    *)
(* state.json holds a cursor that is at least the one load_state returned  *)
(* when the scan started.                                                  *)
CursorMonotonic ==
    (pc = "done" /\ days_back = None) =>
        /\ stateFile.exists
        /\ json_load_ok(stateFile.text)
        /\ json_load(stateFile.text) >= state_last_scan

(* a completed scan that started from a cursor an earlier scan had saved   *)
(* and that moved it forward                                               *)
CursorMonotonicWitness ==
    /\ pc = "done"
    /\ days_back = None
    /\ state_last_scan >= 1
    /\ json_load_ok(stateFile.text)
    /\ json_load(stateFile.text) > state_last_scan

(* C3. Append-only log: every step of a scan or of a report run leaves the *)
(* log as it was or longer by lines added at its end, and never removes    *)
(* the file; a step of a report run leaves it as it was.                   *)
AppendOnlyLog ==
    [][/\ IsPrefix(logFile, logFile')
       /\ logExists => logExists'
       /\ reportVars' # reportVars => logFile' = logFile]_vars

(* two scans have appended to the log and a report was generated from it   *)
AppendOnlyLogWitness ==
    /\ Len(logFile) >= 2
    /\ logFile[1].timestamp # logFile[Len(logFile)].timestamp
    /\ pc = "done"
    /\ report = "written"

(* C4. Clustering disjointness: no file name is in two clusters, nor twice *)
(* in one.                                                                 *)
ClustersDisjoint ==
    \A i, j \in 1..Len(clusters) :
        \A a \in 1..Len(clusters[i].files), b \in 1..Len(clusters[j].files) :
            clusters[i].files[a] = clusters[j].files[b] => i = j /\ a = b

(* a report over a log in which a file occurs in two events and carries    *)
(* two of the selected keywords, with two clusters emitted                 *)
ClustersDisjointWitness ==
    /\ report = "written"
    /\ Len(clusters) >= 2
    /\ \E i, j \in 1..Len(logFile) :
          /\ i # j
          /\ basename(logFile[i].rel_path) = basename(logFile[j].rel_path)
          /\ \E k \in 1..Len(clusters) :
                /\ basename(logFile[i].rel_path) \in Range(clusters[k].files)
                /\ Len(valid_tokens(basename(logFile[i].rel_path))) >= 2

(* ranks of the words of a batch: more frequent first, then first seen *)
FirstPosition(w, ws) == Min({i \in 1..Len(ws) : ws[i] = w})
Outranks(u, w, ws) ==
    \/ Count(u, ws) > Count(w, ws)
    \/ Count(u, ws) = Count(w, ws) /\ FirstPosition(u, ws) < FirstPosition(w, ws)
RankOf(w, ws) == 1 + Cardinality({u \in Range(ws) : Outranks(u, w, ws)})
(* the clusters that list a file name *)
ClustersHolding(name) ==
    {k \in 1..Len(clusters) : name \in Range(clusters[k].files)}

(* C8. Greedy first-match-wins assignment, stated from the batch alone:   *)
(* a keyword outranks another when it is more frequent, or as frequent and *)
(* seen first; the selected keywords are those of rank 1 to TopK.          *)
GreedyFirstMatch ==
    report \in {"written", "raised"} =>
        LET names == all_filenames(logFile)
            ws == Flatten(TokensOf(names))
            rank == [w \in Range(ws) |-> RankOf(w, ws)]
            selected == [n \in Range(names) |->
                            {w \in Range(valid_tokens(n)) : rank[w] <= TopK}]
        IN /\ \A name \in Range(names) :
                 IF selected[name] = {}
                 THEN ClustersHolding(name) = {}
                 ELSE \E k \in 1..Len(clusters) :
                         /\ ClustersHolding(name) = {k}
                         /\ clusters[k].keyword \in selected[name]
                         /\ \A w \in selected[name] :
                               rank[clusters[k].keyword] <= rank[w]
           /\ \A k \in 1..Len(clusters) :
                 /\ clusters[k].files # <<>>
                 /\ clusters[k].count = Len(clusters[k].files)
                 /\ Range(clusters[k].files) \subseteq Range(names)
                 /\ clusters[k].keyword \in Range(ws)
           /\ \A k, l \in 1..Len(clusters) :
                 k < l => rank[clusters[k].keyword] < rank[clusters[l].keyword]

(* a report in which one file goes to the higher-ranked of its two         *)
(* selected keywords, whose other keyword then yields no cluster, and      *)
(* another file with tokens has no selected keyword and is left out        *)
GreedyFirstMatchWitness ==
    /\ report = "written"
    /\ LET names == all_filenames(logFile)
           ws == Flatten(TokensOf(names))
           rank == [w \in Range(ws) |-> RankOf(w, ws)]
           selected == [n \in Range(names) |->
                           {w \in Range(valid_tokens(n)) : rank[w] <= TopK}]
       IN /\ \E name \in Range(names) :
                /\ Cardinality(selected[name]) >= 2
                /\ \E w \in selected[name] :
                      \A k \in 1..Len(clusters) : clusters[k].keyword # w
          /\ \E name \in Range(names) :
                /\ valid_tokens(name) # <<>>
                /\ selected[name] = {}
                /\ ClustersHolding(name) = {}

(* a relative path with a directory whose name starts with a dot *)
UnderHidden(path) ==
    \E i \in 1..Len(path) :
        /\ path[i] = "."
        /\ (i = 1 \/ path[i - 1] = "/")
        /\ \E j \in (i + 1)..Len(path) : path[j] = "/"

(* what scan_and_summarize found and logged has no such path *)
SummaryExcludesHidden ==
    /\ \A i \in 1..Len(new_logs) : ~UnderHidden(new_logs[i].rel_path)
    /\ \A i \in 1..Len(logFile) : ~UnderHidden(logFile[i].rel_path)

(* C5. Hidden-directory exclusion, for both scanners: no reported path has *)
(* a directory whose name starts with a dot.                               *)
HiddenNeverReported ==
    /\ SummaryExcludesHidden
    /\ \A i \in 1..Len(modified_files) : ~UnderHidden(modified_files[i].rel_path)

(* C6. load_state never raises: no scan ends in load_state's exception.    *)
LoadStateNeverRaises == pc # "crashed"

(* no precondition and no external dependency failed in this run *)
NothingFailed ==
    /\ vault_exists
    /\ report = "written"
    /\ publish_linear => publish = "ok"

(* C7. Failure propagation: main reaches "Pipeline Completed Successfully" *)
(* only when nothing failed, and a missing vault root leaves the log and   *)
(* the cursor alone.                                                       *)
FailuresPropagate ==
    mainPc = "completed" =>
        /\ NothingFailed
        /\ ~vault_exists => pc # "done"

(* state.json still reads as the running or killed scan had read it *)
CursorAsLoaded ==
    IF stateFile.exists
    THEN json_load_ok(stateFile.text) /\ json_load(stateFile.text) = state_last_scan
    ELSE state_last_scan = 0

(* the log ends with the events of the run *)
AllEventsLogged ==
    /\ written = Len(new_logs)
    /\ Len(logFile) >= Len(new_logs)
    /\ SubSeq(logFile, Len(logFile) - Len(new_logs) + 1, Len(logFile)) = new_logs

(* the cursor is untouched until the events are in the log *)
CursorWrittenLast ==
    /\ pc \in {"walk", "append", "save"} => CursorAsLoaded
    /\ pc \in {"save", "dump", "done"} => AllEventsLogged

(* C9. Log before cursor: the cursor file is as load_state found it until  *)
(* every event of the run is in the log, and after an interruption of a    *)
(* scan without override the next scan reads the cursor the interrupted    *)
(* one had read.                                                           *)
LogBeforeCursor ==
    /\ CursorWrittenLast
    /\ (pc = "killed" /\ days_back = None) => CursorAsLoaded

(* a note outside every hidden directory *)
Eligible(f) ==
    IsNote(f.name) /\ \A i \in 1..Len(f.dirs) : ~startswith(f.dirs[i], DOT)

(* C10. No lost change: when a scan without override completes, every     *)
(* note that was modified after the cursor the scan started from and       *)
(* before the scan started has an event in the log that is not older than  *)
(* that cursor.                                                            *)
NoLostChange ==
    (pc = "done" /\ days_back = None) =>
        \A f \in Files :
            (Eligible(f) /\ state_last_scan < mtime[f] /\ mtime[f] < current_time) =>
                \E i \in 1..Len(logFile) :
                    /\ logFile[i].rel_path = relpath(f)
                    /\ logFile[i].timestamp >= state_last_scan
====
